---- MODULE Spec2Model ----
(***************************************************************************)
(* sway-screens: the wlr output query (src/src/wlr.rs, src/src/wlr/) and  *)
(* the command line that uses it (src/src/main.rs, src/src/setup.rs).      *)
(*                                                                         *)
(* get_outputs builds an OutputQueryState, then calls blocking_dispatch    *)
(* while state.running; every protocol event of a batch is routed to one   *)
(* of four Dispatch::event handlers (registry, manager, head, mode) which  *)
(* mutate the state.  The manager's Done event calls finalise.             *)
(* main parses its argument with parse_setup, calls get_outputs, then      *)
(* disables the outputs that are not listed and enables the listed ones.   *)
(*                                                                         *)
(* Conventions                                                             *)
(*  - Option<T> is a sequence of length <= 1: <<>> is None, <<v>> is       *)
(*    Some(v).                                                             *)
(*  - An FxHashMap is a function whose DOMAIN is the key set.  The         *)
(*    iteration order of `outputs` (what .iter() yields in finalise) is    *)
(*    kept in `order`; a new key lands at an arbitrary place of it, and    *)
(*    when the table grows (outputs_capacity) all keys are rearranged.     *)
(*  - scale (f64) is kept in hundredths: 100 is 1.0.                       *)
(*  - Variables whose name starts with h_ are history variables: they      *)
(*    record what the server sent, never what a handler did with it.       *)
(*  - Variables whose name starts with main_ are the locals of main and    *)
(*    the calls it made; a string is a sequence of one-character strings.  *)
(***************************************************************************)
EXTENDS Integers, Sequences, FiniteSets, TLC

VARIABLES
    pc,                   \* position of get_outputs: "loop", "dispatch", "ok", "err"
    result,               \* what get_outputs returned: [tag, outputs]
    running,              \* OutputQueryState.running
    outputs,              \* OutputQueryState.outputs: head id -> Output
    order,                \* iteration order of the outputs map
    outputs_capacity,     \* number of keys the table of `outputs` holds before it grows
    modes,                \* OutputQueryState.modes: mode id -> Mode
    output_to_modes,      \* OutputQueryState.output_to_modes: head id -> Seq(mode id)
    outputs_current_mode, \* OutputQueryState.outputs_current_mode: head id -> mode id
    capabilities,         \* OutputQueryState.capabilities
    finalised_output,     \* OutputQueryState.finalised_output
    binds,                \* number of bind requests issued by the registry handler
    h_budget,             \* number of manager/head/mode events the server sends at most
    h_nev,                \* number of manager/head/mode events handled
    h_ndone,              \* number of Done events handled
    h_last,               \* kind of the last manager/head/mode event handled
    h_known,              \* whether the object that event was for had been created before
    h_created,            \* head ids for which a Head event was handled
    h_disc,               \* head ids in the order of their first Head event
    h_attr,               \* per head, per attribute: the last value sent since the head's creation
    h_modes,              \* per head: the mode ids sent in Mode events since the head's creation
    h_mcreated,           \* mode ids for which a Mode event was handled
    h_mattr,              \* per mode, per attribute: the last value sent since the mode's creation
    h_cur,                \* per head: the mode id of the last CurrentMode event
    h_rewritten,          \* "attr" / "cur" once an event replaced a different value sent
                          \* earlier for the same head (an attribute / the current mode)
    h_err,                \* TRUE once blocking_dispatch reported a transport error
    main_pc,              \* position of main: "parse", "new", "get_outputs", "check",
                          \* "disable", "enable", "done", "err", "panic"
    main_args,            \* the command-line arguments after the program name
    main_setup,           \* main's setup: what parse_setup returned
    main_outputs,         \* main's outputs: the list get_outputs returned
    main_i,               \* position of the loop main is in (0-based in the disable
                          \* loop over outputs, 1-based in the enable loop over setup)
    main_x,               \* main's x
    main_calls,           \* the disable_output / enable_output calls made so far
    main_result           \* how main ended: "none", "Ok", "Err: ...", "panic"

state == <<running, outputs, order, outputs_capacity, modes, output_to_modes, outputs_current_mode,
           capabilities, finalised_output>>
hist == <<h_nev, h_ndone, h_last, h_known, h_created, h_disc, h_attr, h_modes, h_mcreated, h_mattr, h_cur,
          h_rewritten, h_err>>
mainvars == <<main_pc, main_args, main_setup, main_outputs, main_i, main_x, main_calls,
              main_result>>
vars == <<pc, result, binds, h_budget, state, hist, mainvars>>

(***************************************************************************)
(* Bounds and the values the server draws its events from.                 *)
(***************************************************************************)
MaxEvents == 3
MaxHeadEvents == 6
MaxModeEvents == 6
MaxRegistryEvents == 2
MaxGlobals == 2
MaxFrameEvents == 4
MaxModesPerHead == 2
MaxArgLen == 3
MaxSetupLen == 2
MaxMainEvents == 6

HeadIds == {"h1", "h2"}
ModeIds == {"m1", "m2"}
Interfaces == {"wl_output", "zwlr_output_manager_v1"}
Names == {"eDP-1", "HDMI-A-1"}
Descriptions == {"", "Dell U2720Q"}
EnabledRaw == {0, 1, 2}
Scales == {100, 200}
Positions == {[x |-> 0, y |-> 0], [x |-> 1920, y |-> 0]}
Sizes == {[width |-> 1920, height |-> 1080], [width |-> 2560, height |-> 1440]}
Refreshes == {60000, 144000}
Chars == {"0", "1", "2", "a"}
SetupChars == {"0", "1", "a"}

(***************************************************************************)
(* Values.                                                                 *)
(***************************************************************************)
None == <<>>
Some(v) == <<v>>

\* Output as inserted by the manager's Head event
DefaultOutput ==
    [name |-> "unknown", description |-> "", position |-> None, modes |-> <<>>,
     enabled |-> FALSE, current_mode |-> None, preferred_mode |-> None, scale |-> 100]

\* Mode as inserted by the head's Mode event
DefaultMode ==
    [resolution |-> [width |-> 0, height |-> 0], refresh |-> 0, preferred |-> FALSE]

\* HashMap::insert
MapInsert(map, k, v) == [x \in (DOMAIN map) \cup {k} |-> IF x = k THEN v ELSE map[x]]

\* the capacity of the map's table after it grew from capacity c: the table has
\* 4 buckets for up to 3 keys, 8 buckets for up to 7 keys, and from then on
\* twice the buckets, of which 7/8 are used (14, 28, 56, 112, .. keys)
GrownCapacity(c) == IF c = 0 THEN 3 ELSE IF c = 3 THEN 7 ELSE 2 * c

\* every arrangement of the elements of the sequence t
Rearrangements(t) ==
    {u \in [1..Len(t) -> {t[i] : i \in 1..Len(t)}] :
        \A i \in 1..Len(t) : \E j \in 1..Len(t) : u[j] = t[i]}

\* the sequences obtained from s by putting k at some place
InsertAnywhere(s, k) ==
    {SubSeq(s, 1, i) \o <<k>> \o SubSeq(s, i + 1, Len(s)) : i \in 0..Len(s)}

\* HashMap::insert makes room for one more key before it looks k up: a table
\* that holds as many keys as its capacity allows grows, also when k is a key
\* already
InsertGrows(s, cap) == Len(s) = cap

CapacityAfterInsert(s, cap) == IF InsertGrows(s, cap) THEN GrownCapacity(cap) ELSE cap

\* the iteration orders the map can have after insert(k, ..), s being the order
\* and cap the capacity before.  When the table grows every key is hashed again
\* into the larger table and the keys can come in any order; otherwise the
\* keys stay where they are and a new key takes some place among them.
OrdersAfterInsert(s, cap, k) ==
    LET known == \E i \in 1..Len(s) : s[i] = k
    IN  IF InsertGrows(s, cap)
        THEN Rearrangements(IF known THEN s ELSE Append(s, k))
        ELSE IF known THEN {s} ELSE InsertAnywhere(s, k)

(***************************************************************************)
(* OutputQueryState: the finalizer.                                        *)
(***************************************************************************)
\* a slip: the head keeps each mode by value as it was when the Mode event came
ResolveModes_AtCreation(ids, ms) ==
    [j \in 1..Len(SelectSeq(ids, LAMBDA m : m \in DOMAIN ms)) |-> DefaultMode]

RECURSIVE ResolveModes(_, _)
\* modes.iter().filter_map(|mode_id| self.modes.get(mode_id)).cloned().collect()
ResolveModes(ids, ms) ==
    IF ids = <<>> THEN <<>>
    ELSE (IF Head(ids) \in DOMAIN ms THEN <<ms[Head(ids)]>> ELSE <<>>)
         \o ResolveModes(Tail(ids), ms)

find_modes_for_output(o2m, ms, id) ==
    IF id \in DOMAIN o2m THEN ResolveModes(o2m[id], ms) ELSE <<>>

find_current_mode(cm, ms, id) ==
    IF id \in DOMAIN cm /\ cm[id] \in DOMAIN ms THEN Some(ms[cm[id]]) ELSE None

RECURSIVE FindPreferred(_)
\* a slip: modes.first().cloned(), the flag is not looked at
FindPreferred_Any(ml) == IF ml = <<>> THEN None ELSE Some(Head(ml))

\* modes.iter().find(|mode| mode.preferred).cloned()
FindPreferred(ml) ==
    IF ml = <<>> THEN None
    ELSE IF Head(ml).preferred THEN Some(Head(ml))
    ELSE FindPreferred(Tail(ml))

finalise_output(o2m, ms, cm, id, output) ==
    LET found == find_modes_for_output(o2m, ms, id)
    IN  [name |-> output.name,
         enabled |-> output.enabled,
         description |-> output.description,
         current_mode |-> find_current_mode(cm, ms, id),
         preferred_mode |-> FindPreferred(found),
         modes |-> found,
         position |-> output.position,
         scale |-> output.scale]

\* a slip: a head that was never named is taken for incomplete and left out
finalise_list_SkipUnnamed(outs, ord, o2m, ms, cm) ==
    LET named == SelectSeq(ord, LAMBDA h : outs[h].name # "unknown")
    IN  [i \in 1..Len(named) |-> finalise_output(o2m, ms, cm, named[i], outs[named[i]])]

\* the new finalised_output
finalise_list(outs, ord, o2m, ms, cm) ==
    [i \in 1..Len(ord) |-> finalise_output(o2m, ms, cm, ord[i], outs[ord[i]])]

finalise ==
    /\ running' = FALSE
    /\ finalised_output' =
           finalise_list(outputs, order, output_to_modes, modes, outputs_current_mode)
    /\ UNCHANGED <<outputs, order, outputs_capacity, modes, output_to_modes, outputs_current_mode,
                   capabilities>>

(***************************************************************************)
(* Dispatch<WlRegistry>: the registry handler.                             *)
(***************************************************************************)
ManagerInterface == "zwlr_output_manager_v1"

\* a slip: every advertised global is bound
registry_Global_BindAll(interface) ==
    /\ capabilities' = Append(capabilities, interface)
    /\ binds' = binds + 1
    /\ UNCHANGED <<running, outputs, order, outputs_capacity, modes, output_to_modes,
                   outputs_current_mode, finalised_output>>

\* Event::Global: capabilities.push(interface); bind when it is the output manager
registry_Global(interface) ==
    /\ capabilities' = Append(capabilities, interface)
    /\ binds' = IF interface = ManagerInterface THEN binds + 1 ELSE binds
    /\ UNCHANGED <<running, outputs, order, outputs_capacity, modes, output_to_modes,
                   outputs_current_mode, finalised_output>>

(***************************************************************************)
(* Dispatch<ZwlrOutputManagerV1>: Head, Done, anything else.               *)
(***************************************************************************)
manager_Head(head) ==
    /\ outputs' = MapInsert(outputs, head, DefaultOutput)
    /\ order' \in OrdersAfterInsert(order, outputs_capacity, head)
    /\ outputs_capacity' = CapacityAfterInsert(order, outputs_capacity)
    /\ output_to_modes' = MapInsert(output_to_modes, head, <<>>)
    /\ UNCHANGED <<running, modes, outputs_current_mode, capabilities, finalised_output>>

manager_Done == finalise

manager_Other == UNCHANGED state

(***************************************************************************)
(* Dispatch<ZwlrOutputHeadV1>: the if/else chain over the head's events.   *)
(* get_mut(&proxy.id()).map(..) changes the entry when the head is known   *)
(* and is None (a warning, nothing else) when it is not.                   *)
(***************************************************************************)
SetName(output, name) == [output EXCEPT !.name = name]
SetEnabled(output, enabled) == [output EXCEPT !.enabled = (enabled = 1)]
\* a slip of copying the branch above: output.name = description
SetDescription_IntoName(output, description) == [output EXCEPT !.name = description]
SetDescription(output, description) == [output EXCEPT !.description = description]
SetScale(output, scale) == [output EXCEPT !.scale = scale]
SetPosition(output, p) == [output EXCEPT !.position = Some([x |-> p.x, y |-> p.y])]

HeadFrame == UNCHANGED <<running, order, outputs_capacity, modes, output_to_modes, outputs_current_mode,
                         capabilities, finalised_output>>

\* a slip: entry(proxy.id()).or_insert(default).name = name
head_Name_Upsert(id, name) ==
    /\ outputs' = MapInsert(outputs, id,
                     SetName(IF id \in DOMAIN outputs THEN outputs[id] ELSE DefaultOutput,
                             name))
    /\ HeadFrame

head_Name(id, name) ==
    /\ outputs' = IF id \in DOMAIN outputs
                  THEN [outputs EXCEPT ![id] = SetName(@, name)] ELSE outputs
    /\ HeadFrame

head_Enabled(id, enabled) ==
    /\ outputs' = IF id \in DOMAIN outputs
                  THEN [outputs EXCEPT ![id] = SetEnabled(@, enabled)] ELSE outputs
    /\ HeadFrame

head_Description(id, description) ==
    /\ outputs' = IF id \in DOMAIN outputs
                  THEN [outputs EXCEPT ![id] = SetDescription(@, description)] ELSE outputs
    /\ HeadFrame

\* a slip: the scale is stored in every head's entry
head_Scale_All(id, scale) ==
    /\ outputs' = IF id \in DOMAIN outputs
                  THEN [g \in DOMAIN outputs |-> SetScale(outputs[g], scale)] ELSE outputs
    /\ HeadFrame

head_Scale(id, scale) ==
    /\ outputs' = IF id \in DOMAIN outputs
                  THEN [outputs EXCEPT ![id] = SetScale(@, scale)] ELSE outputs
    /\ HeadFrame

head_Position(id, p) ==
    /\ outputs' = IF id \in DOMAIN outputs
                  THEN [outputs EXCEPT ![id] = SetPosition(@, p)] ELSE outputs
    /\ HeadFrame

\* the head's list is replaced by the new id instead of being extended
PushMode_Replace(o2m, id, mode) ==
    IF id \in DOMAIN o2m THEN [o2m EXCEPT ![id] = <<mode>>] ELSE o2m

\* a slip: modes.insert(0, mode.id())
PushMode_Front(o2m, id, mode) ==
    IF id \in DOMAIN o2m THEN [o2m EXCEPT ![id] = <<mode>> \o @] ELSE o2m

\* the new output_to_modes of Event::Mode
PushMode(o2m, id, mode) ==
    IF id \in DOMAIN o2m THEN [o2m EXCEPT ![id] = Append(@, mode)] ELSE o2m

\* a slip: the id is pushed but no entry is put in the mode registry
head_Mode_NoInsert(id, mode) ==
    /\ modes' = modes
    /\ output_to_modes' = PushMode(output_to_modes, id, mode)
    /\ UNCHANGED <<running, outputs, order, outputs_capacity, outputs_current_mode, capabilities,
                   finalised_output>>

head_Mode(id, mode) ==
    /\ modes' = MapInsert(modes, mode, DefaultMode)
    /\ output_to_modes' = PushMode(output_to_modes, id, mode)
    /\ UNCHANGED <<running, outputs, order, outputs_capacity, outputs_current_mode, capabilities,
                   finalised_output>>

\* a slip: entry(proxy.id()).or_insert(mode.id())
RecordCurrentMode_KeepFirst(cm, id, mode) ==
    IF id \in DOMAIN cm THEN cm ELSE MapInsert(cm, id, mode)

\* the new outputs_current_mode of Event::CurrentMode
RecordCurrentMode(cm, id, mode) == MapInsert(cm, id, mode)

head_CurrentMode(id, mode) ==
    /\ outputs_current_mode' = RecordCurrentMode(outputs_current_mode, id, mode)
    /\ UNCHANGED <<running, outputs, order, outputs_capacity, modes, output_to_modes, capabilities,
                   finalised_output>>

head_Other == UNCHANGED state

(***************************************************************************)
(* Dispatch<ZwlrOutputModeV1>: Size, Refresh, Preferred, anything else.    *)
(***************************************************************************)
\* a slip: the height is not stored
SetSize_WidthOnly(mode, size) ==
    [mode EXCEPT !.resolution = [width |-> size.width, height |-> mode.resolution.height]]

SetSize(mode, size) ==
    [mode EXCEPT !.resolution = [width |-> size.width, height |-> size.height]]
SetRefresh(mode, refresh) == [mode EXCEPT !.refresh = refresh]
SetPreferred(mode) == [mode EXCEPT !.preferred = TRUE]

ModeFrame == UNCHANGED <<running, outputs, order, outputs_capacity, output_to_modes, outputs_current_mode,
                         capabilities, finalised_output>>

mode_Size(id, size) ==
    /\ modes' = IF id \in DOMAIN modes
                THEN [modes EXCEPT ![id] = SetSize(@, size)] ELSE modes
    /\ ModeFrame

mode_Refresh(id, refresh) ==
    /\ modes' = IF id \in DOMAIN modes
                THEN [modes EXCEPT ![id] = SetRefresh(@, refresh)] ELSE modes
    /\ ModeFrame

mode_Preferred(id) ==
    /\ modes' = IF id \in DOMAIN modes
                THEN [modes EXCEPT ![id] = SetPreferred(@)] ELSE modes
    /\ ModeFrame

mode_Other == UNCHANGED state

(***************************************************************************)
(* The server: which event is handled next, and what the history records.  *)
(* Manager, head and mode events exist only once a bind was issued.  The   *)
(* server may break the protocol: an event may name an object that was     *)
(* never created, and events may follow Done.                              *)
(***************************************************************************)
NoWrites ==
    [name |-> None, enabled |-> None, description |-> None, scale |-> None,
     position |-> None]

NoModeWrites == [size |-> None, refresh |-> None, preferred |-> None]

CanHandle == pc = "dispatch" /\ binds > 0 /\ h_nev < h_budget

Record(kind, known) ==
    /\ h_nev' = h_nev + 1
    /\ h_ndone' = IF kind = "Done" THEN h_ndone + 1 ELSE h_ndone
    /\ h_last' = kind
    /\ h_known' = known

\* history of an attribute event of head h: attribute a is sent the value v
WriteHead(h, a, v) ==
    /\ Record("HeadAttr", h \in h_created)
    /\ h_attr' = IF h \in h_created THEN [h_attr EXCEPT ![h][a] = Some(v)] ELSE h_attr
    /\ h_rewritten' = IF h \in h_created /\ h_attr[h][a] \notin {None, Some(v)}
                      THEN h_rewritten \cup {"attr"} ELSE h_rewritten
    /\ UNCHANGED <<h_created, h_disc, h_modes, h_mcreated, h_mattr, h_cur, h_err>>

\* history of an attribute event of mode m: attribute a is sent the value v
WriteMode(m, a, v) ==
    /\ Record("ModeAttr", m \in h_mcreated)
    /\ h_mattr' = IF m \in h_mcreated THEN [h_mattr EXCEPT ![m][a] = Some(v)] ELSE h_mattr
    /\ h_rewritten' = IF m \in h_mcreated /\ h_mattr[m][a] \notin {None, Some(v)}
                      THEN h_rewritten \cup {"mode"} ELSE h_rewritten
    /\ UNCHANGED <<h_created, h_disc, h_attr, h_modes, h_mcreated, h_cur, h_err>>

Global(interface) ==
    /\ pc = "dispatch"
    /\ Len(capabilities) < MaxGlobals
    /\ registry_Global(interface)
    /\ UNCHANGED <<mainvars, pc, result, h_budget, hist>>

HeadCreated(h) ==
    /\ CanHandle
    /\ manager_Head(h)
    /\ Record("Head", h \in h_created)
    /\ h_created' = h_created \cup {h}
    /\ h_disc' = IF h \in h_created THEN h_disc ELSE Append(h_disc, h)
    /\ h_attr' = [h_attr EXCEPT ![h] = NoWrites]
    /\ h_modes' = [h_modes EXCEPT ![h] = <<>>]
    /\ UNCHANGED <<mainvars, pc, result, binds, h_budget, h_mcreated, h_mattr, h_cur, h_rewritten, h_err>>

Done ==
    /\ CanHandle
    /\ manager_Done
    /\ Record("Done", TRUE)
    /\ UNCHANGED <<mainvars, pc, result, binds, h_budget, h_created, h_disc, h_attr, h_modes, h_mcreated, h_mattr, h_cur,
                   h_rewritten, h_err>>

ManagerOther ==
    /\ CanHandle
    /\ manager_Other
    /\ Record("Other", TRUE)
    /\ UNCHANGED <<mainvars, pc, result, binds, h_budget, h_created, h_disc, h_attr, h_modes, h_mcreated, h_mattr, h_cur,
                   h_rewritten, h_err>>

Name(h, v) ==
    /\ CanHandle /\ head_Name(h, v) /\ WriteHead(h, "name", v)
    /\ UNCHANGED <<mainvars, pc, result, binds, h_budget>>

Enabled(h, v) ==
    /\ CanHandle /\ head_Enabled(h, v) /\ WriteHead(h, "enabled", v)
    /\ UNCHANGED <<mainvars, pc, result, binds, h_budget>>

Description(h, v) ==
    /\ CanHandle /\ head_Description(h, v) /\ WriteHead(h, "description", v)
    /\ UNCHANGED <<mainvars, pc, result, binds, h_budget>>

Scale(h, v) ==
    /\ CanHandle /\ head_Scale(h, v) /\ WriteHead(h, "scale", v)
    /\ UNCHANGED <<mainvars, pc, result, binds, h_budget>>

Position(h, v) ==
    /\ CanHandle /\ head_Position(h, v) /\ WriteHead(h, "position", v)
    /\ UNCHANGED <<mainvars, pc, result, binds, h_budget>>

ModeCreated(h, m) ==
    /\ CanHandle
    /\ h \in h_created => Len(h_modes[h]) < MaxModesPerHead
    /\ head_Mode(h, m)
    /\ Record("Mode", h \in h_created)
    /\ h_modes' = IF h \in h_created THEN [h_modes EXCEPT ![h] = Append(@, m)] ELSE h_modes
    /\ h_mcreated' = h_mcreated \cup {m}
    /\ h_mattr' = [h_mattr EXCEPT ![m] = NoModeWrites]
    /\ UNCHANGED <<mainvars, pc, result, binds, h_budget, h_created, h_disc, h_attr, h_cur, h_rewritten, h_err>>

CurrentMode(h, m) ==
    /\ CanHandle
    /\ head_CurrentMode(h, m)
    /\ Record("CurrentMode", h \in h_created)
    /\ h_cur' = [h_cur EXCEPT ![h] = Some(m)]
    /\ h_rewritten' = IF h_cur[h] \notin {None, Some(m)}
                      THEN h_rewritten \cup {"cur"} ELSE h_rewritten
    /\ UNCHANGED <<mainvars, pc, result, binds, h_budget, h_created, h_disc, h_attr, h_modes, h_mcreated, h_mattr, h_err>>

HeadOther(h) ==
    /\ CanHandle
    /\ head_Other
    /\ Record("Other", h \in h_created)
    /\ UNCHANGED <<mainvars, pc, result, binds, h_budget, h_created, h_disc, h_attr, h_modes, h_mcreated, h_mattr, h_cur,
                   h_rewritten, h_err>>

Size(m, v) ==
    /\ CanHandle /\ mode_Size(m, v) /\ WriteMode(m, "size", v)
    /\ UNCHANGED <<mainvars, pc, result, binds, h_budget>>

Refresh(m, v) ==
    /\ CanHandle /\ mode_Refresh(m, v) /\ WriteMode(m, "refresh", v)
    /\ UNCHANGED <<mainvars, pc, result, binds, h_budget>>

Preferred(m) ==
    /\ CanHandle /\ mode_Preferred(m) /\ WriteMode(m, "preferred", TRUE)
    /\ UNCHANGED <<mainvars, pc, result, binds, h_budget>>

ModeOther(m) ==
    /\ CanHandle
    /\ mode_Other
    /\ Record("Other", m \in h_mcreated)
    /\ UNCHANGED <<mainvars, pc, result, binds, h_budget, h_created, h_disc, h_attr, h_modes, h_mcreated, h_mattr, h_cur,
                   h_rewritten, h_err>>

(***************************************************************************)
(* WlrOutputManager::get_outputs: the dispatch loop.                       *)
(***************************************************************************)
Pending == [tag |-> "Pending", outputs |-> <<>>]

\* a slip: the loop does not test running, blocking_dispatch is called again
LoopEnter_Always ==
    /\ main_pc = "get_outputs"
    /\ pc = "loop"
    /\ pc' = "dispatch"
    /\ UNCHANGED <<mainvars, result, binds, h_budget, state, hist>>

\* main has called get_outputs; while state.running: the condition holds,
\* blocking_dispatch is called
LoopEnter ==
    /\ main_pc = "get_outputs"
    /\ pc = "loop" /\ running
    /\ pc' = "dispatch"
    /\ UNCHANGED <<mainvars, result, binds, h_budget, state, hist>>

\* blocking_dispatch returns Ok(n)
DispatchOk ==
    /\ pc = "dispatch"
    /\ pc' = "loop"
    /\ UNCHANGED <<mainvars, result, binds, h_budget, state, hist>>

\* a slip: the error is dropped and the loop goes on
PropagateErr_Retry ==
    /\ pc' = "loop"
    /\ result' = result

\* q.blocking_dispatch(&mut state)?  with an Err: the function returns it
PropagateErr ==
    /\ pc' = "err"
    /\ result' = [tag |-> "Err", outputs |-> <<>>]

\* blocking_dispatch returns Err(e)
DispatchErr ==
    /\ pc = "dispatch"
    /\ h_err' = TRUE
    /\ PropagateErr
    /\ UNCHANGED <<mainvars, binds, h_budget, state, h_nev, h_ndone, h_last, h_known, h_created, h_disc,
                   h_attr, h_modes, h_mcreated, h_mattr, h_cur, h_rewritten>>

\* a slip: the loop condition inverted, get_outputs returns while running holds
LoopExit_Early ==
    /\ pc = "loop" /\ running
    /\ pc' = "ok"
    /\ result' = [tag |-> "Ok", outputs |-> finalised_output]
    /\ UNCHANGED <<mainvars, binds, h_budget, state, hist>>

\* while state.running: the condition fails; Ok(state.finalised_output)
LoopExit ==
    /\ pc = "loop" /\ ~running
    /\ pc' = "ok"
    /\ result' = [tag |-> "Ok", outputs |-> finalised_output]
    /\ UNCHANGED <<mainvars, binds, h_budget, state, hist>>

get_outputs == LoopEnter \/ DispatchOk \/ DispatchErr \/ LoopExit

(***************************************************************************)
(* parse_setup (setup.rs) and main (main.rs).                              *)
(* A string is a sequence of one-character strings; Result values are      *)
(* records with a tag.                                                     *)
(***************************************************************************)
Ok(v) == [tag |-> "Ok", val |-> v, char |-> ""]
Err(c) == [tag |-> "Err", val |-> <<>>, char |-> c]

\* a slip: c.to_digit(16), the letters a to f pass as digits
to_digit_Hex(c) ==
    CASE c = "0" -> Some(0) [] c = "1" -> Some(1) [] c = "2" -> Some(2) [] c = "3" -> Some(3)
      [] c = "4" -> Some(4) [] c = "5" -> Some(5) [] c = "6" -> Some(6) [] c = "7" -> Some(7)
      [] c = "8" -> Some(8) [] c = "9" -> Some(9) [] c = "a" -> Some(10) [] c = "b" -> Some(11)
      [] c = "c" -> Some(12) [] c = "d" -> Some(13) [] c = "e" -> Some(14)
      [] c = "f" -> Some(15) [] OTHER -> None

\* c.to_digit(10)
to_digit(c) ==
    CASE c = "0" -> Some(0) [] c = "1" -> Some(1) [] c = "2" -> Some(2) [] c = "3" -> Some(3)
      [] c = "4" -> Some(4) [] c = "5" -> Some(5) [] c = "6" -> Some(6) [] c = "7" -> Some(7)
      [] c = "8" -> Some(8) [] c = "9" -> Some(9) [] OTHER -> None

RECURSIVE CollectDigits(_)
\* chars().map(..to_digit(10)..ok_or(..)).collect::<Result<Vec<usize>>>(): the first
\* character that is no digit ends the collection with its error
CollectDigits(chars) ==
    IF chars = <<>> THEN Ok(<<>>)
    ELSE LET d == to_digit(Head(chars))
         IN  IF d = None THEN Err(Head(chars))
             ELSE LET rest == CollectDigits(Tail(chars))
                  IN  IF rest.tag = "Err" THEN rest ELSE Ok(<<d[1]>> \o rest.val)

parse_setup(arg) == IF arg = <<>> THEN Ok(<<>>) ELSE CollectDigits(arg[1])

\* setup.contains(&i)
Contains(setup, i) == \E k \in 1..Len(setup) : setup[k] = i

\* a slip: the negation of the test is lost, the listed outputs are disabled
ShouldDisable_Listed(setup, i) == Contains(setup, i)

\* if !setup.contains(&i)
ShouldDisable(setup, i) == ~Contains(setup, i)

\* a slip: the indices are compared with the number of outputs plus one
TooMany_OffByOne(setup, outs) == Len(setup) > Len(outs) + 1

\* if setup.len() > outputs.len()
TooMany(setup, outs) == Len(setup) > Len(outs)

\* output.preferred_mode.or(output.current_mode)
PlacementMode(output) ==
    IF output.preferred_mode # None THEN output.preferred_mode ELSE output.current_mode

\* if let Some(mode) = .. { x = mode.resolution.width; }
NextX(output, x) ==
    IF PlacementMode(output) # None THEN PlacementMode(output)[1].resolution.width ELSE x

DisableCall(i) == [op |-> "disable", index |-> i, position |-> None]
EnableCall(i, x) == [op |-> "enable", index |-> i, position |-> Some([x |-> x, y |-> 0])]

MainFrame == UNCHANGED <<pc, result, binds, h_budget, state, hist, main_args>>

\* let setup = parse_setup(args.into_iter().skip(1).collect())?;
MainParse ==
    /\ main_pc = "parse"
    /\ main_setup' = parse_setup(main_args)
    /\ main_pc' = IF main_setup'.tag = "Ok" THEN "new" ELSE "err"
    /\ main_result' = IF main_setup'.tag = "Ok" THEN main_result ELSE "Err: parse"
    /\ UNCHANGED <<main_outputs, main_i, main_x, main_calls>>
    /\ MainFrame

\* let man = WlrOutputManager::new()?;  connect_to_env succeeds or fails
MainNew ==
    /\ main_pc = "new"
    /\ \/ main_pc' = "get_outputs" /\ main_result' = main_result
       \/ main_pc' = "err" /\ main_result' = "Err: connect"
    /\ UNCHANGED <<main_setup, main_outputs, main_i, main_x, main_calls>>
    /\ MainFrame

\* String, Vec<String>: the values of up to n elements
SeqsUpTo(S, n) == UNION {[1..k -> S] : k \in 0..n}

\* let outputs = man.get_outputs()?;  the call has run its dispatch loop (LoopEnter,
\* the event handlers, DispatchOk, DispatchErr, LoopExit) and returned: main takes
\* the list of Ok(state.finalised_output), or returns the error
MainGetOutputs ==
    /\ main_pc = "get_outputs"
    /\ \/ /\ pc = "ok"
          /\ main_outputs' = result.outputs
          /\ main_pc' = "check" /\ main_result' = main_result
       \/ /\ pc = "err"
          /\ main_outputs' = main_outputs
          /\ main_pc' = "err" /\ main_result' = "Err: get_outputs"
    /\ UNCHANGED <<main_setup, main_i, main_x, main_calls>>
    /\ MainFrame

\* main.rs 455-470: the count check, then the disable loop is entered or skipped
MainCheck ==
    /\ main_pc = "check"
    /\ IF TooMany(main_setup.val, main_outputs)
       THEN main_pc' = "err" /\ main_result' = "Err: usage" /\ UNCHANGED <<main_i, main_x>>
       ELSE /\ main_result' = main_result
            /\ IF main_setup.val # <<>>
               THEN main_pc' = "disable" /\ main_i' = 0 /\ main_x' = main_x
               ELSE main_pc' = "enable" /\ main_i' = 1 /\ main_x' = 0
    /\ UNCHANGED <<main_setup, main_outputs, main_calls>>
    /\ MainFrame

\* one turn of: for (i, output) in outputs.iter().enumerate()
MainDisable ==
    /\ main_pc = "disable" /\ main_i < Len(main_outputs)
    /\ main_calls' = IF ShouldDisable(main_setup.val, main_i)
                     THEN Append(main_calls, DisableCall(main_i)) ELSE main_calls
    /\ main_i' = main_i + 1
    /\ UNCHANGED <<main_pc, main_setup, main_outputs, main_x, main_result>>
    /\ MainFrame

\* the disable loop ends; let mut x: i32 = 0;
MainDisableEnd ==
    /\ main_pc = "disable" /\ main_i = Len(main_outputs)
    /\ main_pc' = "enable" /\ main_i' = 1 /\ main_x' = 0
    /\ UNCHANGED <<main_setup, main_outputs, main_calls, main_result>>
    /\ MainFrame

\* one turn of: for screen in setup.iter(); &outputs[*screen] panics out of range
MainEnable ==
    /\ main_pc = "enable" /\ main_i <= Len(main_setup.val)
    /\ LET screen == main_setup.val[main_i]
       IN  IF screen >= Len(main_outputs)
           THEN /\ main_pc' = "panic" /\ main_result' = "panic"
                /\ UNCHANGED <<main_i, main_x, main_calls>>
           ELSE /\ main_x' = NextX(main_outputs[screen + 1], main_x)
                /\ main_calls' = Append(main_calls, EnableCall(screen, main_x'))
                /\ main_i' = main_i + 1
                /\ UNCHANGED <<main_pc, main_result>>
    /\ UNCHANGED <<main_setup, main_outputs>>
    /\ MainFrame

\* the enable loop ends; Ok(())
MainEnableEnd ==
    /\ main_pc = "enable" /\ main_i > Len(main_setup.val)
    /\ main_pc' = "done" /\ main_result' = "Ok"
    /\ UNCHANGED <<main_setup, main_outputs, main_i, main_x, main_calls>>
    /\ MainFrame

\* main is inside its call of get_outputs
MainAtQuery ==
    /\ main_pc = "get_outputs"
    /\ main_args = <<>>
    /\ main_setup = Ok(<<>>)
    /\ main_outputs = <<>>
    /\ main_i = 0
    /\ main_x = 0
    /\ main_calls = <<>>
    /\ main_result = "none"

InitQuery ==
    /\ pc = "loop"
    /\ result = Pending
    /\ running = TRUE
    /\ outputs = <<>>
    /\ order = <<>>
    /\ outputs_capacity = 0
    /\ modes = <<>>
    /\ output_to_modes = <<>>
    /\ outputs_current_mode = <<>>
    /\ capabilities = <<>>
    /\ finalised_output = <<>>
    /\ binds = 0
    /\ h_nev = 0
    /\ h_ndone = 0
    /\ h_last = "none"
    /\ h_known = TRUE
    /\ h_created = {}
    /\ h_disc = <<>>
    /\ h_attr = [h \in HeadIds |-> NoWrites]
    /\ h_modes = [h \in HeadIds |-> <<>>]
    /\ h_mcreated = {}
    /\ h_mattr = [m \in ModeIds |-> NoModeWrites]
    /\ h_cur = [h \in HeadIds |-> None]
    /\ h_rewritten = {}
    /\ h_err = FALSE

Init == InitQuery /\ h_budget = MaxEvents /\ MainAtQuery

RegistryEvent == \E i \in Interfaces : Global(i)

ManagerEvent == (\E h \in HeadIds : HeadCreated(h)) \/ Done \/ ManagerOther

HeadAttrEvent ==
    \E h \in HeadIds :
        \/ \E v \in Names : Name(h, v)
        \/ \E v \in EnabledRaw : Enabled(h, v)
        \/ \E v \in Descriptions : Description(h, v)
        \/ \E v \in Scales : Scale(h, v)
        \/ \E v \in Positions : Position(h, v)
        \/ HeadOther(h)

HeadModeEvent ==
    \E h \in HeadIds, m \in ModeIds : ModeCreated(h, m) \/ CurrentMode(h, m)

ModeEvent ==
    \E m \in ModeIds :
        \/ \E v \in Sizes : Size(m, v)
        \/ \E v \in Refreshes : Refresh(m, v)
        \/ Preferred(m)
        \/ ModeOther(m)

\* every event the handlers know, in any order
Next == get_outputs \/ RegistryEvent \/ ManagerEvent \/ HeadAttrEvent \/ HeadModeEvent
        \/ ModeEvent

Spec == Init /\ [][Next]_vars

(***************************************************************************)
(* The same handlers under a server that advertises the manager once and   *)
(* sends the events of one part of the protocol, so that longer event      *)
(* sequences are covered: heads and their attributes; heads, their modes   *)
(* and the modes' attributes.                                              *)
(***************************************************************************)
BindEvent == binds = 0 /\ Global(ManagerInterface)

InitHeads == InitQuery /\ h_budget = MaxHeadEvents /\ MainAtQuery

NextHeads ==
    \/ get_outputs
    \/ BindEvent
    \/ (\E h \in HeadIds : HeadCreated(h)) \/ Done
    \/ \E h \in HeadIds :
        \/ \E v \in Names : Name(h, v)
        \/ \E v \in EnabledRaw : Enabled(h, v)
        \/ \E v \in Descriptions : Description(h, v)
        \/ \E v \in Scales : Scale(h, v)
        \/ \E v \in Positions : Position(h, v)

SpecHeads == InitHeads /\ [][NextHeads]_vars

InitModes == InitQuery /\ h_budget = MaxModeEvents /\ MainAtQuery

NextModes ==
    \/ get_outputs
    \/ BindEvent
    \/ (\E h \in HeadIds : HeadCreated(h)) \/ Done
    \/ HeadModeEvent
    \/ \E m \in ModeIds :
        \/ \E v \in Sizes : Size(m, v)
        \/ Refresh(m, 60000)
        \/ Preferred(m)

SpecModes == InitModes /\ [][NextModes]_vars

(***************************************************************************)
(* The registry and the manager alone, with the fairness the loop itself   *)
(* provides: the `while` condition is evaluated whenever control is at it. *)
(* Nothing makes the server send an event or blocking_dispatch return.     *)
(***************************************************************************)
InitRegistry == InitQuery /\ h_budget = MaxRegistryEvents /\ MainAtQuery

NextRegistry == get_outputs \/ RegistryEvent \/ ManagerEvent

SpecRegistry == InitRegistry /\ [][NextRegistry]_vars

FairRegistry == SpecRegistry /\ WF_vars(LoopEnter) /\ WF_vars(LoopExit)

\* blocking_dispatch returns once it has dispatched the events that were pending: the
\* call in which Done was handled comes back
FairDone ==
    /\ SpecRegistry
    /\ WF_vars(LoopEnter) /\ WF_vars(LoopExit)
    /\ WF_vars(DispatchOk /\ ~running)

\* events of two heads and two modes interleaved, one value per attribute
InitFrame == InitQuery /\ h_budget = MaxFrameEvents /\ MainAtQuery

NextFrame ==
    \/ get_outputs
    \/ BindEvent
    \/ (\E h \in HeadIds : HeadCreated(h)) \/ Done
    \/ HeadModeEvent
    \/ \E h \in HeadIds : Scale(h, 200)
    \/ \E m \in ModeIds : Size(m, [width |-> 1920, height |-> 1080])

SpecFrame == InitFrame /\ [][NextFrame]_vars

\* the arguments main can be started with: none, one string, or a string and a second
\* argument
ArgVectors ==
    {<<>>} \cup {<<w>> : w \in SeqsUpTo(Chars, MaxArgLen)}
           \cup {<<w, <<"1">>>> : w \in SeqsUpTo(Chars, 1)}

\* the arguments main is started with where the whole of main is followed
SetupVectors ==
    {<<>>} \cup {<<w>> : w \in SeqsUpTo(SetupChars, MaxSetupLen)}
           \cup {<<w, <<"1">>>> : w \in SeqsUpTo(SetupChars, 1)}

MainStart ==
    /\ main_pc = "parse"
    /\ main_setup = Ok(<<>>)
    /\ main_outputs = <<>>
    /\ main_i = 0
    /\ main_x = 0
    /\ main_calls = <<>>
    /\ main_result = "none"

\* main from its start, the events of its get_outputs call included
InitMain ==
    /\ InitQuery /\ h_budget = MaxMainEvents
    /\ main_args \in SetupVectors
    /\ MainStart

\* the events the server sends during main's call of get_outputs
MainQueryEvent ==
    \/ BindEvent
    \/ \E h \in HeadIds : HeadCreated(h)
    \/ Name("h1", "eDP-1")
    \/ ModeCreated("h1", "m1")
    \/ CurrentMode("h1", "m1")
    \/ Size("m1", [width |-> 1920, height |-> 1080])
    \/ Preferred("m1")
    \/ Done

NextMain ==
    \/ MainParse \/ MainNew \/ MainGetOutputs \/ MainCheck
    \/ MainDisable \/ MainDisableEnd \/ MainEnable \/ MainEnableEnd
    \/ get_outputs
    \/ MainQueryEvent

SpecMain == InitMain /\ [][NextMain]_vars

\* parse_setup on every argument vector: main up to its call of get_outputs
InitParse ==
    /\ InitQuery /\ h_budget = 0
    /\ main_args \in ArgVectors
    /\ MainStart

NextParse == MainParse \/ MainNew

SpecParse == InitParse /\ [][NextParse]_vars

(***************************************************************************)
(* What the claims speak of.                                               *)
(***************************************************************************)
\* finalise has run and no manager, head or mode event was handled since:
\* finalised_output[i] is the Output of head order[i]
Finalized == h_last = "Done"

OrDefault(opt, default) == IF opt = None THEN default ELSE opt[1]

\* the least index of ml whose mode is flagged preferred, 0 if there is none
FirstFlagged(ml) ==
    LET flagged == {j \in 1..Len(ml) : ml[j].preferred}
    IN  IF flagged = {} THEN 0 ELSE CHOOSE j \in flagged : \A k \in flagged : j <= k

\* the registry values of the mode ids of a list, those missing from the registry left out
ValuesOf(ids) ==
    LET present == SelectSeq(ids, LAMBDA m : m \in DOMAIN modes)
    IN  [j \in 1..Len(present) |-> modes[present[j]]]

(***************************************************************************)
(* C1. When Done is handled, the Output of every created head carries,     *)
(* for name, description, enabled, scale and position, the last value the  *)
(* server sent for that head since the head was created, or the default    *)
(* ("unknown", "", false, 1.0, None) when it sent none; the events of      *)
(* other heads make no difference.                                         *)
(***************************************************************************)
C1_LastWriteWins ==
    Finalized =>
        /\ Len(finalised_output) = Cardinality(h_created)
        /\ {order[i] : i \in 1..Len(order)} = h_created
        /\ \A i \in 1..Len(finalised_output) :
              LET o == finalised_output[i]
                  w == h_attr[order[i]]
              IN  /\ o.name = OrDefault(w.name, "unknown")
                  /\ o.description = OrDefault(w.description, "")
                  /\ o.enabled = (OrDefault(w.enabled, 0) = 1)
                  /\ o.scale = OrDefault(w.scale, 100)
                  /\ o.position = w.position

\* two heads with attributes were finalized, one attribute having been overwritten
C1_Witness ==
    /\ Finalized
    /\ "attr" \in h_rewritten
    /\ Len(finalised_output) = 2
    /\ finalised_output[1].name # "unknown"
    /\ finalised_output[2].name # "unknown"
    /\ finalised_output[1].name # finalised_output[2].name

(***************************************************************************)
(* C2. When Done is handled, the modes list of every head's Output is the  *)
(* sequence of registry values of the mode ids the server sent in Mode     *)
(* events for that head since its creation, in the order of those events.  *)
(***************************************************************************)
C2_ModesOfHead ==
    Finalized =>
        \A i \in 1..Len(finalised_output) :
            finalised_output[i].modes = ValuesOf(h_modes[order[i]])

\* a head with two modes of different values, in creation order, and another
\* head that has none of them
C2_Witness ==
    /\ Finalized
    /\ \E i, k \in 1..Len(finalised_output) :
          /\ Len(finalised_output[i].modes) = 2
          /\ ~finalised_output[i].modes[1].preferred
          /\ finalised_output[i].modes[2].preferred
          /\ finalised_output[k].modes = <<>>

(***************************************************************************)
(* C3. In every finalized Output, preferred_mode is the first element of   *)
(* modes that is flagged preferred, and None exactly when no element is    *)
(* flagged, whatever current_mode is.                                      *)
(***************************************************************************)
C3_PreferredIsFirstFlagged ==
    \A i \in 1..Len(finalised_output) :
        LET o == finalised_output[i]
            f == FirstFlagged(o.modes)
        IN  o.preferred_mode = IF f = 0 THEN None ELSE Some(o.modes[f])

\* scenario B: two modes, the first preferred, the second current
C3_Witness ==
    \E i \in 1..Len(finalised_output) :
        LET o == finalised_output[i]
        IN  /\ Len(o.modes) = 2
            /\ o.modes[1].preferred /\ ~o.modes[2].preferred
            /\ o.preferred_mode = Some(o.modes[1])
            /\ o.current_mode = Some(o.modes[2])

(***************************************************************************)
(* C4. The current-mode map holds, for every head, the mode id of the last *)
(* CurrentMode event sent for it (no entry when none was sent); when Done  *)
(* is handled, current_mode is the registry value of that id, and None     *)
(* when no id was recorded or the id is not in the Mode Registry.          *)
(***************************************************************************)
C4_CurrentMode ==
    /\ DOMAIN outputs_current_mode = {h \in HeadIds : h_cur[h] # None}
    /\ \A h \in DOMAIN outputs_current_mode : outputs_current_mode[h] = h_cur[h][1]
    /\ Finalized =>
          \A i \in 1..Len(finalised_output) :
              LET c == h_cur[order[i]]
              IN  finalised_output[i].current_mode =
                      IF c = None \/ c[1] \notin DOMAIN modes THEN None
                      ELSE Some(modes[c[1]])

\* a current mode that replaced an earlier one was resolved at Done
C4_Witness ==
    /\ Finalized
    /\ "cur" \in h_rewritten
    /\ \E i \in 1..Len(finalised_output) :
          /\ h_cur[order[i]] # None
          /\ finalised_output[i].current_mode # None
          /\ finalised_output[i].current_mode[1].preferred

\* a recorded current-mode id that is not in the Mode Registry resolves to None
C4_WitnessAbsent ==
    /\ Finalized
    /\ \E i \in 1..Len(finalised_output) :
          /\ h_cur[order[i]] # None
          /\ h_cur[order[i]][1] \notin DOMAIN modes
          /\ finalised_output[i].current_mode = None

(***************************************************************************)
(* C5. A head-attribute event for a head id that is not in the Head        *)
(* Registry, and a mode-attribute event for a mode id that is not in the   *)
(* Mode Registry, change none of the four maps, add no entry, and leave    *)
(* the query running where it was.                                         *)
(***************************************************************************)
UnknownAttrStep ==
    /\ h_nev' = h_nev + 1
    /\ h_last' \in {"HeadAttr", "ModeAttr"}
    /\ ~h_known'

C5_UnknownIdIsNoOp ==
    [][UnknownAttrStep =>
          /\ h_created = DOMAIN outputs /\ h_mcreated = DOMAIN modes
          /\ UNCHANGED <<outputs, order, output_to_modes, outputs_current_mode, modes,
                         finalised_output, running, pc, result>>]_vars

\* an attribute event for an unknown head was handled while other objects exist
C5_Witness ==
    /\ h_last = "HeadAttr" /\ ~h_known
    /\ DOMAIN outputs # {} /\ DOMAIN modes # {}
    /\ running /\ pc = "dispatch"

(***************************************************************************)
(* C6. Once running is false, an event other than Done changes neither     *)
(* the Head Registry, the mode-id lists, the current-mode map, the Mode    *)
(* Registry, nor the finalized output list.                                *)
(***************************************************************************)
C6_NoOpAfterFinalized ==
    [][(~running /\ h_nev' = h_nev + 1 /\ h_last' # "Done") =>
          UNCHANGED <<outputs, output_to_modes, outputs_current_mode, modes,
                      finalised_output>>]_vars

(***************************************************************************)
(* C7. A Done event handled when the query is already finalized leaves     *)
(* the finalized output list as it was.                                    *)
(***************************************************************************)
C7_SecondDoneKeepsList ==
    [][(~running /\ h_ndone' = h_ndone + 1) =>
          finalised_output' = finalised_output]_vars

(***************************************************************************)
(* C8. running goes from true to false only when Done is handled, never    *)
(* returns to true, and finalise computes the output list once only.       *)
(***************************************************************************)
C8_FinalisedOnce ==
    [][/\ (running /\ ~running') => h_ndone' = h_ndone + 1
       /\ ~running => ~running'
       /\ h_ndone' # h_ndone => h_ndone = 0]_vars

(***************************************************************************)
(* C9. When globals were advertised and none of them is the output         *)
(* manager, then, unless the manager is advertised later, get_outputs      *)
(* ends with an error instead of waiting in the dispatch loop.             *)
(***************************************************************************)
C9_CapabilityNotFound ==
    (capabilities # <<>> /\ binds = 0) ~> (binds > 0 \/ pc = "err")

(***************************************************************************)
(* C10. Once blocking_dispatch has reported a transport error, get_outputs *)
(* has returned Err with no output list, and stays there: no event is      *)
(* handled and no dispatch is started afterwards.                          *)
(***************************************************************************)
C10_ErrorIsReturnedAtOnce ==
    h_err => /\ pc = "err"
             /\ result = [tag |-> "Err", outputs |-> <<>>]

\* the error came when heads had been collected and Done had not
C10_Witness ==
    /\ h_err /\ pc = "err"
    /\ running /\ DOMAIN outputs # {}

\* the rank of a head id in the ascending order of identifiers
HeadRank == ("h1" :> 1) @@ ("h2" :> 2)

Ascending(ids) == \A i, j \in 1..Len(ids) : i < j => HeadRank[ids[i]] < HeadRank[ids[j]]

(***************************************************************************)
(* C11. The finalised list follows a fixed order of the heads: when Done   *)
(* is handled, the heads appear in it either in ascending order of their   *)
(* identifiers or in the order in which the server announced them, so the  *)
(* same heads always give the same list order.                             *)
(***************************************************************************)
C11_DeterministicOrder ==
    Finalized => Ascending(order) \/ order = h_disc

(***************************************************************************)
(* C16. Right after a Head event for a head id, known before or not, that  *)
(* head has the default attributes, an empty mode-id list and no           *)
(* current-mode id.                                                        *)
(***************************************************************************)
C16_HeadCreatedIsDefault ==
    [][\A h \in HeadIds :
          HeadCreated(h) => /\ outputs'[h] = DefaultOutput
                            /\ output_to_modes'[h] = <<>>
                            /\ h \notin DOMAIN outputs_current_mode']_vars

(***************************************************************************)
(* C17. A Mode event for a head of the head registry puts the default mode *)
(* under the mode id and appends the id to that head's list; a Mode event  *)
(* for a head that is not in the registry changes neither the mode         *)
(* registry nor any mode-id list.                                          *)
(***************************************************************************)
C17_ModeForUnknownHeadDiscarded ==
    [][\A h \in HeadIds, m \in ModeIds :
          ModeCreated(h, m) =>
              IF h \in DOMAIN outputs
              THEN /\ m \in DOMAIN modes' /\ modes'[m] = DefaultMode
                   /\ output_to_modes'[h] = Append(output_to_modes[h], m)
              ELSE UNCHANGED <<modes, output_to_modes>>]_vars

IsPrefix(s, t) == Len(s) <= Len(t) /\ \A i \in 1..Len(s) : s[i] = t[i]

KeysKept ==
    /\ DOMAIN outputs \subseteq DOMAIN outputs'
    /\ DOMAIN modes \subseteq DOMAIN modes'
    /\ DOMAIN output_to_modes \subseteq DOMAIN output_to_modes'

(***************************************************************************)
(* C18 as claimed. No step removes a key of the head registry or of the    *)
(* mode registry, and every head's mode-id list after a step has the list  *)
(* before the step as a prefix.                                            *)
(***************************************************************************)
C18_NothingRemoved ==
    [][/\ KeysKept
       /\ \A h \in DOMAIN output_to_modes :
             IsPrefix(output_to_modes[h], output_to_modes'[h])]_vars

(***************************************************************************)
(* C18 amended. No step removes a key of either registry, and every head's *)
(* mode-id list after a step has the list before the step as a prefix,     *)
(* except that a Head event for a head that exists already overwrites that *)
(* head's list with the empty list.                                        *)
(***************************************************************************)
C18_NothingRemovedButByOverwrite ==
    [][/\ KeysKept
       /\ \A h \in DOMAIN output_to_modes :
             \/ IsPrefix(output_to_modes[h], output_to_modes'[h])
             \/ /\ h_last' = "Head" /\ h_nev' = h_nev + 1 /\ h \in DOMAIN outputs
                /\ output_to_modes'[h] = <<>>
                /\ \A g \in DOMAIN output_to_modes \ {h} :
                      output_to_modes'[g] = output_to_modes[g]]_vars

\* a head was sent two mode ids one after the other: its list grew at the end and
\* both registries hold their keys
C18_Witness ==
    /\ h_last = "Mode" /\ h_known
    /\ \E h \in DOMAIN output_to_modes :
          /\ Len(output_to_modes[h]) = 2
          /\ output_to_modes[h] = h_modes[h]
          /\ \A k \in 1..2 : output_to_modes[h][k] \in DOMAIN modes

(***************************************************************************)
(* C19. While running is true no Done was handled and the finalised list   *)
(* is empty; get_outputs has returned Ok only after a Done event was       *)
(* handled and running was cleared, and what it returned is the list that  *)
(* finalise stored.                                                        *)
(***************************************************************************)
C19_FinaliseOnlyAtDone ==
    /\ running => finalised_output = <<>> /\ h_ndone = 0
    /\ pc = "ok" => /\ h_ndone > 0 /\ ~running
                    /\ result = [tag |-> "Ok", outputs |-> finalised_output]
    /\ result.tag = "Ok" => pc = "ok"

\* get_outputs has returned a list with an output in it
C19_Witness ==
    /\ pc = "ok" /\ result.tag = "Ok"
    /\ result.outputs # <<>> /\ result.outputs = finalised_output

\* how many entries of the capability list name the output manager
ManagerEntries == Cardinality({k \in 1..Len(capabilities) :
                                  capabilities[k] = "zwlr_output_manager_v1"})

(***************************************************************************)
(* C20. The capability list changes only by one advertised interface name  *)
(* being appended at its end, and such a step changes no head, mode or     *)
(* finalisation state; the number of binds issued changes only in such a   *)
(* step and always equals the number of entries of the list that name      *)
(* zwlr_output_manager_v1.                                                 *)
(***************************************************************************)
C20_GlobalRecordsAndBinds ==
    /\ [](binds = ManagerEntries)
    /\ [][/\ capabilities' # capabilities =>
                /\ \E i \in Interfaces : capabilities' = Append(capabilities, i)
                /\ UNCHANGED <<running, outputs, order, modes, output_to_modes,
                               outputs_current_mode, finalised_output>>
          /\ binds' # binds => capabilities' # capabilities]_vars

\* an interface that is not the manager was advertised, then the manager: one bind
C20_Witness ==
    /\ capabilities = <<"wl_output", "zwlr_output_manager_v1">>
    /\ binds = 1

\* the decimal digits, the digit of value n at place n + 1
Decimal == <<"0", "1", "2", "3", "4", "5", "6", "7", "8", "9">>

IsDecimal(c) == \E n \in 1..Len(Decimal) : Decimal[n] = c

\* the string parse_setup reads: the first argument, empty when there is none
FirstArg == IF main_args = <<>> THEN <<>> ELSE main_args[1]

(***************************************************************************)
(* C13. Once parse_setup has returned: when every character of the first   *)
(* argument is a decimal digit (also when the argument is empty or         *)
(* missing), the result is Ok with a list as long as the argument whose    *)
(* k-th element is the value of the k-th character; otherwise the result   *)
(* is an error that carries no list, and main ends with it.                *)
(***************************************************************************)
C13_ParseSetup ==
    main_pc # "parse" =>
        IF \A k \in 1..Len(FirstArg) : IsDecimal(FirstArg[k])
        THEN /\ main_setup.tag = "Ok"
             /\ Len(main_setup.val) = Len(FirstArg)
             /\ \A k \in 1..Len(FirstArg) :
                   /\ main_setup.val[k] \in 0..9
                   /\ Decimal[main_setup.val[k] + 1] = FirstArg[k]
        ELSE /\ main_setup.tag = "Err" /\ main_setup.val = <<>>
             /\ main_pc = "err" /\ main_result = "Err: parse"

\* "012" was parsed to [0, 1, 2]
C13_Witness ==
    /\ main_pc # "parse"
    /\ main_args = << <<"0", "1", "2">> >>
    /\ main_setup.tag = "Ok" /\ main_setup.val = <<0, 1, 2>>

\* "1a" was refused
C13_WitnessErr ==
    /\ main_args = << <<"1", "a">> >>
    /\ main_setup.tag = "Err" /\ main_pc = "err"

\* the parsed index list is longer than the list of discovered outputs
MoreIndicesThanOutputs ==
    main_setup.tag = "Ok" /\ Len(main_setup.val) > Len(main_outputs)

(***************************************************************************)
(* C15. When the parsed index list is longer than the list of discovered   *)
(* outputs, main never reaches its disable or enable loop and makes no     *)
(* call; it ends with the usage error, and the usage error is given in     *)
(* this case only.                                                         *)
(***************************************************************************)
C15_TooManyIndices ==
    /\ MoreIndicesThanOutputs =>
          /\ main_calls = <<>>
          /\ main_pc \in {"parse", "new", "get_outputs", "check", "err"}
          /\ (main_pc = "err" /\ pc = "ok") => main_result = "Err: usage"
    /\ main_result = "Err: usage" =>
          main_pc = "err" /\ MoreIndicesThanOutputs /\ main_calls = <<>>

\* two indices for one output: usage error, no call
C15_Witness ==
    /\ main_result = "Err: usage" /\ main_pc = "err"
    /\ Len(main_setup.val) = 2 /\ Len(main_outputs) = 1
    /\ main_calls = <<>>

\* the disable loop is over: main is in its enable loop or has left it
DisableLoopOver == main_pc \in {"enable", "done", "panic"}

(***************************************************************************)
(* C14. disable_output is never called for an output whose index occurs in *)
(* the index string, never twice for one output, and never after an        *)
(* enable_output call; once main, with a non-empty index list that passed  *)
(* the count check, is through its disable loop, every discovered output   *)
(* whose index does not occur in the list has been disabled; with an empty *)
(* or missing argument no call is made at all.                             *)
(***************************************************************************)
C14_DisableUnlisted ==
    /\ \A k \in 1..Len(main_calls) :
          main_calls[k].op = "disable" =>
              /\ main_calls[k].index \in 0..(Len(main_outputs) - 1)
              /\ \A n \in 1..Len(main_setup.val) : main_setup.val[n] # main_calls[k].index
              /\ \A j \in 1..(k - 1) : /\ main_calls[j].op = "disable"
                                       /\ main_calls[j].index # main_calls[k].index
    /\ (DisableLoopOver /\ main_setup.val # <<>>) =>
          \A i \in 0..(Len(main_outputs) - 1) :
              (\A n \in 1..Len(main_setup.val) : main_setup.val[n] # i)
                  => \E k \in 1..Len(main_calls) :
                        main_calls[k].op = "disable" /\ main_calls[k].index = i
    /\ FirstArg = <<>> => main_calls = <<>>

\* "1" with two outputs: output 0 was disabled, then output 1 was enabled
C14_Witness ==
    /\ main_pc = "done" /\ main_setup.val = <<1>> /\ Len(main_outputs) = 2
    /\ Len(main_calls) = 2
    /\ main_calls[1].op = "disable" /\ main_calls[1].index = 0
    /\ main_calls[2].op = "enable" /\ main_calls[2].index = 1

\* no argument, two outputs: main ended without a call
C14_WitnessEmpty ==
    /\ main_pc = "done" /\ main_args = <<>> /\ Len(main_outputs) = 2
    /\ main_calls = <<>>

EnableCalls == SelectSeq(main_calls, LAMBDA c : c.op = "enable")

(***************************************************************************)
(* C12. When main has ended with Ok, enable_output was called once per     *)
(* index of the list, in the order of the list; the first listed output    *)
(* was placed at x = 0, y = 0, and each following one at y = 0 and at an x *)
(* that is the width of the mode used for placement (of that output, or of *)
(* the output listed before it, when they have one).                       *)
(***************************************************************************)
C12_PlacementLeftToRight ==
    main_pc = "done" =>
        /\ Len(EnableCalls) = Len(main_setup.val)
        /\ \A k \in 1..Len(EnableCalls) : EnableCalls[k].index = main_setup.val[k]
        /\ EnableCalls # <<>> => EnableCalls[1].position = Some([x |-> 0, y |-> 0])
        /\ \A k \in 2..Len(EnableCalls) :
              LET pos == EnableCalls[k].position[1]
                  own == PlacementMode(main_outputs[main_setup.val[k] + 1])
                  prev == PlacementMode(main_outputs[main_setup.val[k - 1] + 1])
              IN  /\ pos.y = 0
                  /\ (own # None \/ prev # None) =>
                         \/ own # None /\ pos.x = own[1].resolution.width
                         \/ prev # None /\ pos.x = prev[1].resolution.width

(***************************************************************************)
(* C24. Every index main reads the list of outputs with is smaller than    *)
(* the length of the list: in its enable loop the index it is about to use *)
(* is in range, and main never ends in the panic of an out-of-range        *)
(* access.                                                                 *)
(***************************************************************************)
C24_IndexInRange ==
    /\ main_pc # "panic"
    /\ (main_pc = "enable" /\ main_i <= Len(main_setup.val)) =>
           main_setup.val[main_i] < Len(main_outputs)

\* the entry of mode m is what the server sent for m since the mode's latest Mode event
ModeEntryIsLastWritten(m) ==
    /\ modes[m].resolution = OrDefault(h_mattr[m].size, [width |-> 0, height |-> 0])
    /\ modes[m].refresh = OrDefault(h_mattr[m].refresh, 0)
    /\ modes[m].preferred = (h_mattr[m].preferred # None)

(***************************************************************************)
(* C21 as claimed. Every mode of the registry holds the size and the       *)
(* refresh last sent for it, whatever was sent for other modes, and no     *)
(* step takes the preferred flag of a mode from true back to false.        *)
(***************************************************************************)
C21_PreferredNeverCleared ==
    /\ [](\A m \in DOMAIN modes :
             /\ modes[m].resolution = OrDefault(h_mattr[m].size, [width |-> 0, height |-> 0])
             /\ modes[m].refresh = OrDefault(h_mattr[m].refresh, 0))
    /\ [][\A m \in DOMAIN modes : modes[m].preferred => modes'[m].preferred]_vars

(***************************************************************************)
(* C21 amended. Every mode of the registry holds the size and the refresh  *)
(* last sent for it since its latest Mode event (the defaults when none    *)
(* was sent), and its preferred flag is true exactly when a Preferred      *)
(* event was sent for it since then, whatever was sent for other modes: a  *)
(* Mode event for a mode id that exists already puts the default entry     *)
(* back and so clears the flag.                                            *)
(***************************************************************************)
C21_ModeLastWriteWins ==
    /\ DOMAIN modes = h_mcreated
    /\ \A m \in DOMAIN modes : ModeEntryIsLastWritten(m)

\* a mode whose size was sent twice with different values and that was flagged
\* preferred, next to a mode that was sent nothing
C21_Witness ==
    /\ "mode" \in h_rewritten /\ h_last = "ModeAttr" /\ h_known
    /\ \E m, n \in DOMAIN modes :
          /\ m # n
          /\ modes[m].preferred /\ modes[m].resolution.width = 2560
          /\ modes[n] = DefaultMode

\* the mode the server has described under id m since the latest Mode event for m
SentMode(m) ==
    [resolution |-> OrDefault(h_mattr[m].size, [width |-> 0, height |-> 0]),
     refresh |-> OrDefault(h_mattr[m].refresh, 0),
     preferred |-> (h_mattr[m].preferred # None)]

SentModes(ids) == [j \in 1..Len(ids) |-> SentMode(ids[j])]

(***************************************************************************)
(* C22. When Done is handled, the modes of every head's Output, its        *)
(* current_mode and its preferred_mode carry the attribute values the      *)
(* server has sent for those mode ids up to Done, also those sent after    *)
(* the Mode event that put the id in the head's list and after the         *)
(* CurrentMode event that named it.                                        *)
(***************************************************************************)
C22_ModeValuesAsOfDone ==
    Finalized =>
        \A i \in 1..Len(finalised_output) :
            LET o == finalised_output[i]
                sent == SentModes(h_modes[order[i]])
                c == h_cur[order[i]]
                f == FirstFlagged(sent)
            IN  /\ o.modes = sent
                /\ o.current_mode = IF c = None \/ c[1] \notin h_mcreated THEN None
                                    ELSE Some(SentMode(c[1]))
                /\ o.preferred_mode = IF f = 0 THEN None ELSE Some(sent[f])

\* a head's only mode was sized and flagged after its Mode event: the Output shows
\* the size and the flag in modes, in current_mode and in preferred_mode
C22_Witness ==
    /\ Finalized
    /\ \E i \in 1..Len(finalised_output) :
          LET o == finalised_output[i]
          IN  /\ Len(o.modes) = 1 /\ Len(h_modes[order[i]]) = 1
              /\ o.modes[1].resolution.width = 2560 /\ o.modes[1].preferred
              /\ o.current_mode = Some(o.modes[1])
              /\ o.preferred_mode = Some(o.modes[1])

(***************************************************************************)
(* C23. In every state every mode id of every head's mode-id list is a key *)
(* of the mode registry; so when Done is handled no mode is dropped: the   *)
(* modes list of a head's Output is as long as the number of Mode events   *)
(* handled for that head since its creation.                               *)
(***************************************************************************)
C23_ListedModesResolve ==
    /\ \A h \in DOMAIN output_to_modes :
          \A k \in 1..Len(output_to_modes[h]) : output_to_modes[h][k] \in DOMAIN modes
    /\ Finalized =>
          \A i \in 1..Len(finalised_output) :
              /\ Len(finalised_output[i].modes) = Len(h_modes[order[i]])
              /\ Len(finalised_output[i].modes) = Len(output_to_modes[order[i]])

\* two heads, one was sent two Mode events and the other one
C23_Witness ==
    /\ Finalized /\ Len(finalised_output) = 2
    /\ \E i, k \in 1..2 :
          /\ Len(finalised_output[i].modes) = 2 /\ Len(h_modes[order[i]]) = 2
          /\ Len(finalised_output[k].modes) = 1 /\ Len(h_modes[order[k]]) = 1

\* the server has sent nothing for head h since its creation
Untouched(h) == h_attr[h] = NoWrites /\ h_modes[h] = <<>> /\ h_cur[h] = None

(***************************************************************************)
(* C26. When Done is handled, the finalised list has one Output per head   *)
(* id of the head registry, as many as distinct head ids were created      *)
(* (none when no head was created), each head id at one place of the list; *)
(* a head the server sent nothing for is in it with the default Output:    *)
(* default attributes, no modes, no current and no preferred mode.         *)
(***************************************************************************)
C26_OneOutputPerHead ==
    Finalized =>
        /\ Len(finalised_output) = Cardinality(DOMAIN outputs)
        /\ Len(finalised_output) = Cardinality(h_created)
        /\ Len(order) = Len(finalised_output)
        /\ \A h \in h_created : \E i \in 1..Len(order) : order[i] = h
        /\ \A i \in 1..Len(finalised_output) :
              Untouched(order[i]) =>
                  finalised_output[i] =
                      [name |-> "unknown", description |-> "", position |-> None,
                       modes |-> <<>>, enabled |-> FALSE, current_mode |-> None,
                       preferred_mode |-> None, scale |-> 100]

\* two heads were created, one was named and the other was sent nothing
C26_Witness ==
    /\ Finalized /\ Len(finalised_output) = 2
    /\ \E i, k \in 1..2 :
          /\ Untouched(order[i]) /\ finalised_output[i].name = "unknown"
          /\ ~Untouched(order[k]) /\ finalised_output[k].name = "eDP-1"

\* Done came when no head had been created: the list is empty
C26_WitnessEmpty ==
    /\ Finalized /\ h_created = {} /\ finalised_output = <<>>

\* the step handles an event addressed to a head / to a mode
HeadStep == h_nev' = h_nev + 1 /\ h_last' \in {"HeadAttr", "Mode", "CurrentMode"}
ModeStep == h_nev' = h_nev + 1 /\ h_last' = "ModeAttr"

CurrentIdOf(cm, g) == IF g \in DOMAIN cm THEN Some(cm[g]) ELSE None

\* the step changes what the state holds for head g / for mode n
HeadChanged(g) ==
    \/ outputs'[g] # outputs[g]
    \/ output_to_modes'[g] # output_to_modes[g]
    \/ CurrentIdOf(outputs_current_mode', g) # CurrentIdOf(outputs_current_mode, g)

ModeChanged(n) == n \in DOMAIN modes' /\ (n \in DOMAIN modes => modes'[n] # modes[n])

\* head g holds mode id n, in its list or as its current mode
Refers(g, n) ==
    \/ \E k \in 1..Len(output_to_modes[g]) : output_to_modes[g][k] = n
    \/ CurrentIdOf(outputs_current_mode, g) = Some(n)

\* the Output finalise would build for head g before and after the step
OutputBefore(g) ==
    finalise_output(output_to_modes, modes, outputs_current_mode, g, outputs[g])
OutputAfter(g) ==
    finalise_output(output_to_modes', modes', outputs_current_mode', g, outputs'[g])

\* a step for a head or a mode changes at most one head (none when it is for a mode)
\* and at most one mode (none unless it is a Mode or a mode-attribute event)
OneObjectChanges ==
    /\ HeadStep \/ ModeStep =>
          /\ Cardinality({g \in DOMAIN outputs : HeadChanged(g)}) <= 1
          /\ Cardinality({n \in ModeIds : ModeChanged(n)}) <= 1
          /\ DOMAIN outputs' = DOMAIN outputs
    /\ ModeStep => \A g \in DOMAIN outputs : ~HeadChanged(g)
    /\ (HeadStep /\ h_last' # "Mode") => modes' = modes

(***************************************************************************)
(* C25 as claimed. An event for a head changes entry, list and current     *)
(* mode id of that head at most and no mode but a newly created one, an    *)
(* event for a mode changes that mode at most; the Output finalise would   *)
(* build for any other head (for a mode event: any head that does not      *)
(* hold the mode) is the same after the event as before.                   *)
(***************************************************************************)
C25_OtherObjectsUntouched ==
    [][/\ OneObjectChanges
       /\ HeadStep => \A g \in DOMAIN outputs :
                         ~HeadChanged(g) => OutputAfter(g) = OutputBefore(g)
       /\ ModeStep => \A g \in DOMAIN outputs :
                         (\A n \in ModeIds : ModeChanged(n) => ~Refers(g, n))
                             => OutputAfter(g) = OutputBefore(g)]_vars

(***************************************************************************)
(* C25 amended. As before, but the Output of another head stays the same   *)
(* only if that head does not hold (in its list or as current mode) the    *)
(* mode id the event creates: a Mode event puts the default entry under    *)
(* its mode id, whichever head it is for, and every head holding the id    *)
(* shows the new entry.                                                    *)
(***************************************************************************)
C25_OtherObjectsUntouchedUnlessHeld ==
    [][/\ OneObjectChanges
       /\ HeadStep \/ ModeStep =>
             \A g \in DOMAIN outputs :
                 (~HeadChanged(g) /\ \A n \in ModeIds : ModeChanged(n) => ~Refers(g, n))
                     => OutputAfter(g) = OutputBefore(g)]_vars

\* a Mode event for one head came while another head held a mode id of its own
C25_Witness ==
    /\ h_last = "Mode" /\ h_known
    /\ \E g, h \in DOMAIN outputs :
          /\ g # h
          /\ Len(output_to_modes[h]) = 1 /\ Len(output_to_modes[g]) = 1
          /\ output_to_modes[h] # output_to_modes[g]

(***************************************************************************)
(* C27. Once a Done event was handled, get_outputs comes to its return     *)
(* with Ok and the finalised list, unless a dispatch step fails; and once  *)
(* running is false, blocking_dispatch is not called again.                *)
(***************************************************************************)
C27_ReturnsAfterDone ==
    /\ (h_ndone > 0) ~> (h_err \/ (pc = "ok" /\ result.tag = "Ok"
                                   /\ result.outputs = finalised_output))
    /\ [][~running => ~(pc = "loop" /\ pc' = "dispatch")]_vars

\* the manager was bound, a head and Done were delivered, get_outputs returned one Output
C27_Witness ==
    /\ binds > 0 /\ h_ndone = 1 /\ h_last = "Done" /\ ~h_err
    /\ pc = "ok" /\ Len(result.outputs) = 1
====
